---- MODULE Spec2Model ----
(***************************************************************************)
(* Model of src/valgrind_icd.cpp: the two exported functions               *)
(* valgrindCallgrindStart(zerostats) and valgrindCallgrindStop(), each     *)
(* compiled in one of two ways according to the macro ICD_VALGRIND.        *)
(*                                                                         *)
(* Everything a call does is recorded as a sequence of events, in program  *)
(* order: a line written to Rcout, a line written through DEBUG, or a      *)
(* callgrind client request.  The history of calls is kept so that the     *)
(* properties of "every call" can be stated over the calls made so far.    *)
(***************************************************************************)
EXTENDS Integers, Sequences, FiniteSets

VARIABLES
    ICD_VALGRIND,      \* build flag: is the #ifdef ICD_VALGRIND branch compiled
    ICD_DEBUG,         \* build flag: does DEBUG(...) print anything
    instrumentation,   \* the backend's own state: TRUE = instrumenting
    trace,             \* every event emitted so far, in order
    calls              \* one record per completed call, in call order

vars == <<ICD_VALGRIND, ICD_DEBUG, instrumentation, trace, calls>>

\* Number of calls explored per run.
MaxCalls == 4

----------------------------------------------------------------------------
\* Events

StartNotice   == "Starting callgrind instrumentation..."
ZeroNotice    == "Zeroing callgrind stats."
StopNotice    == "Stopping Valgrind callgrind instrumentation..."
StartNotLinked == "NOT starting Valgrind callgrind instrumentation, not linked"
StopNotLinked  == "NOT stopping Valgrind callgrind instrumentation, not linked."

\* Rcout << text << std::endl
Rcout(text) == <<[kind |-> "Rcout", what |-> text]>>

\* DEBUG(text): a diagnostic line when debugging is compiled in, else nothing.
DEBUG(text) == IF ICD_DEBUG THEN <<[kind |-> "DEBUG", what |-> text]>> ELSE <<>>

\* The three client requests, as signals delivered to the backend.
CALLGRIND_START_INSTRUMENTATION == <<[kind |-> "CALLGRIND", what |-> "START_INSTRUMENTATION"]>>
CALLGRIND_ZERO_STATS            == <<[kind |-> "CALLGRIND", what |-> "ZERO_STATS"]>>
CALLGRIND_STOP_INSTRUMENTATION  == <<[kind |-> "CALLGRIND", what |-> "STOP_INSTRUMENTATION"]>>

IsSignal(e) == e.kind = "CALLGRIND"
IsNotice(e) == e.kind = "Rcout"
IsDiag(e)   == e.kind = "DEBUG"

\* The signals among a sequence of events, in order.
Signals(events) == SelectSeq(events, IsSignal)
Notices(events) == SelectSeq(events, IsNotice)
Diags(events)   == SelectSeq(events, IsDiag)

\* The backend's reaction to one signal: start switches instrumentation on,
\* stop switches it off, zeroing the statistics leaves it as it is.
BackendStep(state, e) ==
    IF ~IsSignal(e) THEN state
    ELSE IF e.what = "START_INSTRUMENTATION" THEN TRUE
    ELSE IF e.what = "STOP_INSTRUMENTATION" THEN FALSE
    ELSE state

RECURSIVE Backend(_, _)
Backend(state, events) ==
    IF events = <<>> THEN state
    ELSE Backend(BackendStep(state, Head(events)), Tail(events))

----------------------------------------------------------------------------
\* A call from the host runtime: the events the body emitted are appended to
\* the trace and delivered to the backend, and the call is logged with its
\* return value.
Call(fn, arg, events, ret) ==
    /\ Len(calls) < MaxCalls
    /\ trace' = trace \o events
    /\ instrumentation' = Backend(instrumentation, events)
    /\ calls' = Append(calls, [fn |-> fn, zerostats |-> arg, ret |-> ret,
                               events |-> events,
                               before |-> instrumentation,
                               after  |-> Backend(instrumentation, events)])
    /\ UNCHANGED <<ICD_VALGRIND, ICD_DEBUG>>

----------------------------------------------------------------------------
\* Faulty variants of the two functions, each differing from the source by
\* one plausible slip.  They are used to show that the properties below are
\* sensitive to the code.

\* returns an error code when the backend is not linked
valgrindCallgrindStart_failUnlinked(zerostats) ==
    Call("start", zerostats,
         IF ICD_VALGRIND
         THEN Rcout(StartNotice) \o CALLGRIND_START_INSTRUMENTATION
              \o (IF zerostats THEN Rcout(ZeroNotice) \o CALLGRIND_ZERO_STATS
                               ELSE <<>>)
         ELSE DEBUG(StartNotLinked),
         IF ICD_VALGRIND THEN 0 ELSE 1)

\* zeroes the statistics before starting the instrumentation
valgrindCallgrindStart_zeroFirst(zerostats) ==
    Call("start", zerostats,
         IF ICD_VALGRIND
         THEN (IF zerostats THEN Rcout(ZeroNotice) \o CALLGRIND_ZERO_STATS
                            ELSE <<>>)
              \o Rcout(StartNotice) \o CALLGRIND_START_INSTRUMENTATION
         ELSE DEBUG(StartNotLinked),
         0)

\* the zerostats block sits after the #endif instead of inside the #ifdef
valgrindCallgrindStart_zeroOutsideIfdef(zerostats) ==
    Call("start", zerostats,
         (IF ICD_VALGRIND
          THEN Rcout(StartNotice) \o CALLGRIND_START_INSTRUMENTATION
          ELSE DEBUG(StartNotLinked))
         \o (IF zerostats THEN Rcout(ZeroNotice) \o CALLGRIND_ZERO_STATS
                          ELSE <<>>),
         0)

\* zeroes the statistics whatever zerostats is
valgrindCallgrindStart_alwaysZero(zerostats) ==
    Call("start", zerostats,
         IF ICD_VALGRIND
         THEN Rcout(StartNotice) \o CALLGRIND_START_INSTRUMENTATION
              \o Rcout(ZeroNotice) \o CALLGRIND_ZERO_STATS
         ELSE DEBUG(StartNotLinked),
         0)

\* sends each client request before printing the notice for it
valgrindCallgrindStart_signalBeforeNotice(zerostats) ==
    Call("start", zerostats,
         IF ICD_VALGRIND
         THEN CALLGRIND_START_INSTRUMENTATION \o Rcout(StartNotice)
              \o (IF zerostats THEN CALLGRIND_ZERO_STATS \o Rcout(ZeroNotice)
                               ELSE <<>>)
         ELSE DEBUG(StartNotLinked),
         0)

\* keeps track of the instrumentation state and does nothing when already on
valgrindCallgrindStart_tracksState(zerostats) ==
    Call("start", zerostats,
         IF ICD_VALGRIND
         THEN IF instrumentation THEN <<>>
              ELSE Rcout(StartNotice) \o CALLGRIND_START_INSTRUMENTATION
                   \o (IF zerostats THEN Rcout(ZeroNotice) \o CALLGRIND_ZERO_STATS
                                    ELSE <<>>)
         ELSE DEBUG(StartNotLinked),
         0)

\* returns an error code when the backend is not linked
valgrindCallgrindStop_failUnlinked ==
    Call("stop", FALSE,
         IF ICD_VALGRIND
         THEN Rcout(StopNotice) \o CALLGRIND_STOP_INSTRUMENTATION
         ELSE DEBUG(StopNotLinked),
         IF ICD_VALGRIND THEN 0 ELSE -1)

\* reports an error when asked to stop while instrumentation is not running
valgrindCallgrindStop_checksState ==
    Call("stop", FALSE,
         IF ICD_VALGRIND
         THEN Rcout(StopNotice) \o CALLGRIND_STOP_INSTRUMENTATION
         ELSE DEBUG(StopNotLinked),
         IF instrumentation THEN 0 ELSE 1)

\* the client request sits after the #endif instead of inside the #ifdef
valgrindCallgrindStop_outsideIfdef ==
    Call("stop", FALSE,
         (IF ICD_VALGRIND THEN Rcout(StopNotice) ELSE DEBUG(StopNotLinked))
         \o CALLGRIND_STOP_INSTRUMENTATION,
         0)

\* copy of the start function with the client request left unchanged
valgrindCallgrindStop_sendsStart ==
    Call("stop", FALSE,
         IF ICD_VALGRIND
         THEN Rcout(StopNotice) \o CALLGRIND_START_INSTRUMENTATION
         ELSE DEBUG(StopNotLinked),
         0)

----------------------------------------------------------------------------
\* int valgrindCallgrindStart(bool zerostats = false)
valgrindCallgrindStart(zerostats) ==
    Call("start", zerostats,
         IF ICD_VALGRIND
         THEN Rcout(StartNotice) \o CALLGRIND_START_INSTRUMENTATION
              \o (IF zerostats THEN Rcout(ZeroNotice) \o CALLGRIND_ZERO_STATS
                               ELSE <<>>)
         ELSE DEBUG(StartNotLinked),
         0)

\* int valgrindCallgrindStop()
valgrindCallgrindStop ==
    Call("stop", FALSE,
         IF ICD_VALGRIND
         THEN Rcout(StopNotice) \o CALLGRIND_STOP_INSTRUMENTATION
         ELSE DEBUG(StopNotLinked),
         0)

Init ==
    /\ ICD_VALGRIND \in BOOLEAN
    /\ ICD_DEBUG \in BOOLEAN
    /\ instrumentation \in (IF ICD_VALGRIND THEN BOOLEAN ELSE {FALSE})
    /\ trace = <<>>
    /\ calls = <<>>

Next ==
    \/ \E zerostats \in BOOLEAN : valgrindCallgrindStart(zerostats)
    \/ valgrindCallgrindStop

Spec == Init /\ [][Next]_vars

----------------------------------------------------------------------------
\* Properties

StartCalls == {i \in DOMAIN calls : calls[i].fn = "start"}
StopCalls  == {i \in DOMAIN calls : calls[i].fn = "stop"}

\* The signals a start call is meant to deliver when the backend is linked.
StartSignals(zerostats) ==
    IF zerostats THEN CALLGRIND_START_INSTRUMENTATION \o CALLGRIND_ZERO_STATS
                 ELSE CALLGRIND_START_INSTRUMENTATION

\* The notice that announces a signal.
NoticeFor(signal) ==
    IF signal = "START_INSTRUMENTATION" THEN StartNotice
    ELSE IF signal = "ZERO_STATS" THEN ZeroNotice
    ELSE StopNotice

\* C1: every call of start returns 0, whatever zerostats is and whether or
\* not ICD_VALGRIND is defined.
C1_StartReturnsZero ==
    \A i \in StartCalls : calls[i].ret = 0

\* start has been called with both values of zerostats.
C1_Witness ==
    /\ \E i \in StartCalls : calls[i].zerostats
    /\ \E i \in StartCalls : ~calls[i].zerostats

\* C2: every call of stop returns 0, whether or not ICD_VALGRIND is defined.
C2_StopReturnsZero ==
    \A i \in StopCalls : calls[i].ret = 0

\* stop has been called in a build without the backend.
C2_Witness ==
    ~ICD_VALGRIND /\ StopCalls # {}

\* C3: in any sequence of start and stop calls every call returns 0; in
\* particular a stop made before any start, and both of two successive
\* starts, return 0.
C3_EveryCallReturnsZero ==
    /\ \A i \in DOMAIN calls : calls[i].ret = 0
    /\ (calls # <<>> /\ calls[1].fn = "stop") => calls[1].ret = 0
    /\ \A i \in DOMAIN calls :
          (i > 1 /\ calls[i].fn = "start" /\ calls[i-1].fn = "start")
             => (calls[i-1].ret = 0 /\ calls[i].ret = 0)

\* The run began with a stop while nothing was being instrumented, and later
\* made two starts in succession.
C3_Witness ==
    /\ calls # <<>>
    /\ calls[1].fn = "stop"
    /\ ~calls[1].before
    /\ \E i \in DOMAIN calls :
          i > 1 /\ calls[i].fn = "start" /\ calls[i-1].fn = "start"

\* C4: with the backend linked, start(true) followed by stop() returns 0
\* twice and delivers exactly the signals start, zero stats, stop, in that
\* order.
C4_StartTrueThenStop ==
    ( /\ ICD_VALGRIND
      /\ Len(calls) = 2
      /\ calls[1].fn = "start" /\ calls[1].zerostats
      /\ calls[2].fn = "stop" )
    => /\ calls[1].ret = 0
       /\ calls[2].ret = 0
       /\ Signals(trace) = CALLGRIND_START_INSTRUMENTATION
                           \o CALLGRIND_ZERO_STATS
                           \o CALLGRIND_STOP_INSTRUMENTATION

C4_Witness ==
    /\ ICD_VALGRIND
    /\ Len(calls) = 2
    /\ calls[1].fn = "start" /\ calls[1].zerostats
    /\ calls[2].fn = "stop"

\* C5: without the backend, a start call delivers no signal and leaves the
\* backend as it was, and start(true) and start(false) return the same value
\* and emit the same events.
C5_ZerostatsIgnoredUnlinked ==
    ~ICD_VALGRIND =>
        /\ \A i \in StartCalls :
             /\ Signals(calls[i].events) = <<>>
             /\ calls[i].after = calls[i].before
             /\ calls[i].ret = 0
        /\ \A i, j \in StartCalls :
             /\ calls[i].ret = calls[j].ret
             /\ calls[i].events = calls[j].events
             /\ calls[i].after = calls[j].after

C5_Witness ==
    /\ ~ICD_VALGRIND
    /\ \E i \in StartCalls : calls[i].zerostats
    /\ \E i \in StartCalls : ~calls[i].zerostats

\* C6: with the backend linked, every start call delivers the start signal
\* exactly once, delivers the zero-stats signal exactly when zerostats is
\* true, and then after the start signal.
C6_StartSignals ==
    ICD_VALGRIND =>
        \A i \in StartCalls :
            LET sig == Signals(calls[i].events) IN
            /\ Len(SelectSeq(sig, LAMBDA e : e.what = "START_INSTRUMENTATION")) = 1
            /\ Len(SelectSeq(sig, LAMBDA e : e.what = "ZERO_STATS"))
                  = (IF calls[i].zerostats THEN 1 ELSE 0)
            /\ sig = StartSignals(calls[i].zerostats)

C6_Witness ==
    /\ ICD_VALGRIND
    /\ \E i \in StartCalls : calls[i].zerostats
    /\ \E i \in StartCalls : ~calls[i].zerostats

\* C7: with the backend linked, every stop call delivers the stop signal once
\* and no other signal; without the backend, no call of either function
\* delivers any signal.
C7_StopSignals ==
    /\ ICD_VALGRIND =>
          \A i \in StopCalls :
              Signals(calls[i].events) = CALLGRIND_STOP_INSTRUMENTATION
    /\ ~ICD_VALGRIND =>
          /\ Signals(trace) = <<>>
          /\ \A i \in DOMAIN calls : Signals(calls[i].events) = <<>>

\* A run without the backend that has called both functions.
C7_Witness ==
    /\ ~ICD_VALGRIND
    /\ StartCalls # {}
    /\ StopCalls # {}

\* C8: with the backend linked, start takes inactive to active and leaves
\* active as it is, stop takes active to inactive and leaves inactive as it
\* is; in each case the signal is forwarded and the call returns 0.
C8_TwoStateMachine ==
    ICD_VALGRIND =>
        /\ \A i \in DOMAIN calls :
             LET c == calls[i] IN
             /\ c.ret = 0
             /\ Signals(c.events) # <<>>
             /\ (c.fn = "start" /\ ~c.before) => c.after
             /\ (c.fn = "start" /\ c.before)  => c.after = c.before
             /\ (c.fn = "stop"  /\ c.before)  => ~c.after
             /\ (c.fn = "stop"  /\ ~c.before) => c.after = c.before
        /\ calls # <<>> => instrumentation = calls[Len(calls)].after

\* All four transitions have been taken.
C8_Witness ==
    /\ ICD_VALGRIND
    /\ \E i \in StartCalls : ~calls[i].before
    /\ \E i \in StartCalls : calls[i].before
    /\ \E i \in StopCalls : calls[i].before
    /\ \E i \in StopCalls : ~calls[i].before

\* C9: with the backend linked a call emits no diagnostic, one notice per
\* signal, and each notice immediately before the signal it announces;
\* without the backend a call emits no notice and at most one event, the
\* "not linked" diagnostic.
C9_OutputKinds ==
    \A i \in DOMAIN calls :
        LET ev == calls[i].events IN
        IF ICD_VALGRIND
        THEN /\ Diags(ev) = <<>>
             /\ Len(Notices(ev)) =
                   (IF calls[i].fn = "stop" THEN 1
                    ELSE IF calls[i].zerostats THEN 2 ELSE 1)
             /\ \A k \in DOMAIN ev :
                   /\ IsSignal(ev[k]) =>
                         /\ k > 1
                         /\ IsNotice(ev[k-1])
                         /\ ev[k-1].what = NoticeFor(ev[k].what)
                   /\ IsNotice(ev[k]) =>
                         /\ k < Len(ev)
                         /\ IsSignal(ev[k+1])
                         /\ ev[k].what = NoticeFor(ev[k+1].what)
        ELSE /\ Notices(ev) = <<>>
             /\ Len(ev) <= 1
             /\ \A k \in DOMAIN ev :
                   /\ IsDiag(ev[k])
                   /\ ev[k].what = (IF calls[i].fn = "start"
                                    THEN StartNotLinked ELSE StopNotLinked)

\* A linked run with start(true) and stop.
C9_Witness ==
    /\ ICD_VALGRIND
    /\ \E i \in StartCalls : calls[i].zerostats
    /\ StopCalls # {}

\* The result of a call: what the caller and the backend can observe of it.
Result(c) == [ret |-> c.ret, events |-> c.events]

\* Two calls of the same function with the same argument give the same
\* result, whatever was called before them.
HistoryIndependent ==
    \A i, j \in DOMAIN calls :
        (calls[i].fn = calls[j].fn /\ calls[i].zerostats = calls[j].zerostats)
            => Result(calls[i]) = Result(calls[j])

\* C10: the build flags never change during a run, and the result of a call
\* depends only on its argument and the flags, not on the calls before it.
C10_NoRuntimeState ==
    /\ []HistoryIndependent
    /\ [][ICD_VALGRIND' = ICD_VALGRIND /\ ICD_DEBUG' = ICD_DEBUG]_vars

\* The same call made twice, once with instrumentation off and once with it
\* on, with a different call in between.
C10_Witness ==
    /\ ICD_VALGRIND
    /\ \E i, j \in StartCalls :
          /\ i + 1 < j
          /\ calls[i].zerostats = calls[j].zerostats
          /\ calls[i].before # calls[j].before

====
